---- MODULE Spec2Model ----
(***************************************************************************)
(* Carbon emission calculator backend (src/app): the identity store, the   *)
(* credential service, the bill ledger, the trip ledger and the carbon     *)
(* accounting functions, as one state machine.  Every request handler is  *)
(* one action; a handler's reply is recorded in the variable `last`.       *)
(*                                                                         *)
(* Numbers.  Carbon masses are exact integers in units of 1e-4 kg          *)
(* (CarbonScale units per kg); distances of local transports are in       *)
(* tenths of a km.  round(x, 3) maps such a value to whole grams           *)
(* (1e-3 kg).  Binary floating point error is not modelled.                *)
(* Time is in hours since the start of the run.                            *)
(***************************************************************************)
EXTENDS Integers, Sequences, FiniteSets, TLC

VARIABLES
    hotels,      \* table hotels: sequence of rows, row i has id i
    agents,      \* table travel_agents
    bills,       \* table utility_bills
    s3,          \* object storage: set of object keys written
    trips,       \* table trips
    flights,     \* table flight_segments
    transports,  \* table local_transports
    stays,       \* table hotel_stays
    now,         \* wall clock, hours
    last,        \* the last request and its reply
    inflight     \* register requests between their existence check and their commit

vars == <<hotels, agents, bills, s3, trips, flights, transports, stays, now, last,
         inflight>>

stores == <<hotels, agents, bills, s3, trips, flights, transports, stays>>

(***************************************************************************)
(* Bounds of the model.                                                    *)
(***************************************************************************)
\* bills per hotel
MaxBills == 1
MaxTrips == 1
MaxTicks == 1
MaxInflight == 2
MaxSteps == 3
MaxPassengers == 4
MaxNights == 3

(***************************************************************************)
(* Program constants.                                                      *)
(***************************************************************************)
TokenExpireHours == 24
MinBillYear == 2020
DefaultFlightKm == 500
DefaultHotelKgPerRoomNight == 30
\* kg CO2 per unit of a bill, in thousandths, and the days a bill covers
HotelStayElectricityFactor == 708
HotelStayWaterFactor == 298
DaysInBill == 30
\* emission factors, in thousandths of a kg CO2 per unit
FootprintElectricityFactor == 500
FootprintWaterFactor == 1
FlightFactor == 255
DefaultTransportFactor == 171

\* The clock advances in steps of one token lifetime.
TickHours == TokenExpireHours

\* The run starts one tick before a new year begins.
BaseYear == 2025
HoursToNewYear == TickHours

\* datetime.now().year
CurrentYear(t) == IF t >= HoursToNewYear THEN BaseYear + 1 ELSE BaseYear

\* units of carbon mass per kg: one unit is a tenth of a gram
CarbonScale == 10 * 1000

(***************************************************************************)
(* Small input sets.                                                       *)
(***************************************************************************)
Emails == {"a@x", "b@x"}
Passwords == {"pw-one-1", "pw-two-2"}
RegisterPasswords == {"pw-one-1"}
Names == {"Grand"}

\* first(): the row with the least id among the matching rows, if any
Matching(tbl, P(_)) == {i \in 1..Len(tbl) : P(tbl[i])}

Least(S) == CHOOSE i \in S : \A j \in S : i <= j

(***************************************************************************)
(* Password hashing (passlib bcrypt): a one-way image of the password; the *)
(* salt is not modelled.                                                   *)
(***************************************************************************)
BcryptHash(pw) == <<"bcrypt", pw>>

BcryptVerifyAny(pw, hashed) == TRUE

BcryptVerify(pw, hashed) == hashed = BcryptHash(pw)

(***************************************************************************)
(* JWT.  A credential is what arrives in the Authorization header.         *)
(***************************************************************************)
NoPayload == [exp |-> 0]

MissingCred == [form |-> "missing", sig |-> "none", payload |-> NoPayload]

MalformedCred == [form |-> "malformed", sig |-> "none", payload |-> NoPayload]

Jwt(sig, payload) == [form |-> "jwt", sig |-> sig, payload |-> payload]

\* a variant that signs with another key
create_access_token_other_key(data, t) ==
    [form |-> "jwt", sig |-> "bad",
     payload |-> [k \in (DOMAIN data) \cup {"exp"} |->
                     IF k = "exp" THEN t + TokenExpireHours ELSE data[k]]]

\* create_access_token: the data plus exp = utcnow + 24 hours, signed
create_access_token(data, t) ==
    Jwt("ok", [k \in (DOMAIN data) \cup {"exp"} |->
                  IF k = "exp" THEN t + TokenExpireHours ELSE data[k]])

\* a variant that skips the exp claim
jwt_decode_no_exp(cred, t) ==
    IF cred.form # "jwt" THEN "DecodeError"
    ELSE IF cred.sig # "ok" THEN "InvalidSignatureError"
    ELSE "ok"

\* jwt.decode: signature first, then the exp claim
jwt_decode(cred, t) ==
    IF cred.form # "jwt" THEN "DecodeError"
    ELSE IF cred.sig # "ok" THEN "InvalidSignatureError"
    ELSE IF cred.payload.exp <= t THEN "ExpiredSignatureError"
    ELSE "ok"

Has(payload, k) == k \in DOMAIN payload

\* HTTPBearer() answers a request without Authorization header itself; the
\* status depends on the FastAPI release (403 in older ones, 401 in newer).
BearerMissingStatus == {401, 403}

\* the statuses to consider for a request presenting cred
MissingStatusFor(cred) == IF cred.form = "missing" THEN BearerMissingStatus ELSE {401}

Reject(status, detail) == [ok |-> FALSE, status |-> status, detail |-> detail]

\* get_current_hotel
get_current_hotel(cred, t, ms) ==
    IF cred.form = "missing" THEN Reject(ms, "Not authenticated")
    ELSE LET d == jwt_decode(cred, t) IN
        IF d = "ExpiredSignatureError" THEN Reject(401, "Token has expired")
        ELSE IF d # "ok" THEN Reject(401, "Invalid token")
        ELSE IF ~Has(cred.payload, "hotel_id") \/ ~Has(cred.payload, "hotel_name")
            THEN Reject(401, "Invalid token: missing hotel information")
        ELSE IF cred.payload.hotel_id = 0 \/ cred.payload.hotel_name = ""
            THEN Reject(401, "Invalid token: missing hotel information")
        ELSE [ok |-> TRUE, status |-> 200, detail |-> "",
              hotel_id |-> cred.payload.hotel_id,
              hotel_name |-> cred.payload.hotel_name]

\* a variant that takes the subject from whichever id claim the token has
get_current_travel_agent_any_subject(cred, t, tbl, ms) ==
    IF cred.form = "missing" THEN Reject(ms, "Not authenticated")
    ELSE LET d == jwt_decode(cred, t) IN
        IF d = "ExpiredSignatureError" THEN Reject(401, "Token has expired")
        ELSE IF d # "ok" THEN Reject(500, "Internal Server Error")
        ELSE LET subject == IF Has(cred.payload, "agent_id") THEN cred.payload.agent_id
                            ELSE cred.payload.hotel_id
             IN IF Matching(tbl, LAMBDA r : r.id = subject) = {}
                THEN Reject(500, "Internal Server Error")
                ELSE [ok |-> TRUE, status |-> 200, detail |-> "",
                      agent |-> tbl[Least(Matching(tbl, LAMBDA r : r.id = subject))]]

\* get_current_travel_agent.  Its second handler names jwt.JWTError, which the
\* jwt package imported by auth.py does not define: every exception other
\* than ExpiredSignatureError raised in the try block, the HTTPException(401)
\* of the block included, ends in an AttributeError, i.e. status 500.
get_current_travel_agent(cred, t, tbl, ms) ==
    IF cred.form = "missing" THEN Reject(ms, "Not authenticated")
    ELSE LET d == jwt_decode(cred, t) IN
        IF d = "ExpiredSignatureError" THEN Reject(401, "Token has expired")
        ELSE IF d # "ok" THEN Reject(500, "Internal Server Error")
        ELSE IF ~Has(cred.payload, "agent_id")
            THEN Reject(500, "Internal Server Error")
        ELSE IF Matching(tbl, LAMBDA r : r.id = cred.payload.agent_id) = {}
            THEN Reject(500, "Internal Server Error")
        ELSE [ok |-> TRUE, status |-> 200, detail |-> "",
              agent |-> tbl[Least(Matching(tbl, LAMBDA r : r.id = cred.payload.agent_id))]]

(***************************************************************************)
(* Credentials a client can present in the current state: none, garbage,   *)
(* a forged token (wrong signature), and every token a login can have      *)
(* returned so far: for an account created at c, one per login time        *)
(* c, c + TickHours, ..., now.                                             *)
(***************************************************************************)
Times == {k * TickHours : k \in 0..MaxTicks}

HotelTokens ==
    {create_access_token([hotel_id |-> hotels[i].id, hotel_name |-> hotels[i].name], t) :
        <<i, t>> \in {x \in (1..Len(hotels)) \X Times :
                        hotels[x[1]].created_at <= x[2] /\ x[2] <= now}}

AgentTokens ==
    {create_access_token([agent_id |-> agents[i].id, agent_name |-> agents[i].name], t) :
        <<i, t>> \in {x \in (1..Len(agents)) \X Times :
                        agents[x[1]].created_at <= x[2] /\ x[2] <= now}}

ForgedCreds ==
    {Jwt("bad", [agent_id |-> 1, agent_name |-> "Grand", hotel_id |-> 1,
                 hotel_name |-> "Grand", exp |-> MaxTicks * TickHours + TokenExpireHours])}

Creds == {MissingCred, MalformedCred} \cup ForgedCreds \cup HotelTokens \cup AgentTokens

\* A finer clock, in steps of half a token lifetime, and the tokens a login
\* can have returned at its times.
StepHours == TokenExpireHours \div 2

ClockTimes == {k * StepHours : k \in 0..MaxSteps}

Advance ==
    /\ now + StepHours <= MaxSteps * StepHours
    /\ now' = now + StepHours
    /\ UNCHANGED <<stores, last, inflight>>

HotelTokensAt(times) ==
    {create_access_token([hotel_id |-> hotels[i].id, hotel_name |-> hotels[i].name], t) :
        <<i, t>> \in {x \in (1..Len(hotels)) \X times :
                        hotels[x[1]].created_at <= x[2] /\ x[2] <= now}}

AgentTokensAt(times) ==
    {create_access_token([agent_id |-> agents[i].id, agent_name |-> agents[i].name], t) :
        <<i, t>> \in {x \in (1..Len(agents)) \X times :
                        agents[x[1]].created_at <= x[2] /\ x[2] <= now}}

\* a worker that is not between the check and the commit of a register
Idle == [op |-> "idle"]

(***************************************************************************)
(* Initial state: empty tables, empty bucket.                              *)
(***************************************************************************)
Init ==
    /\ hotels = <<>>
    /\ agents = <<>>
    /\ bills = <<>>
    /\ s3 = {}
    /\ trips = <<>>
    /\ flights = <<>>
    /\ transports = <<>>
    /\ stays = <<>>
    /\ now = 0
    /\ last = [op |-> "none", status |-> 0]
    /\ inflight = [slot \in 1..MaxInflight |-> Idle]

Tick ==
    /\ now + TickHours <= MaxTicks * TickHours
    /\ now' = now + TickHours
    /\ UNCHANGED <<stores, last, inflight>>

(***************************************************************************)
(* POST /auth/register                                                     *)
(***************************************************************************)
\* a variant that replaces the account holding the email
register_replacing(email, name, password) ==
    /\ hotels' = Append(SelectSeq(hotels, LAMBDA r : r.email # email),
                        [id |-> Len(hotels) + 1, name |-> name, email |-> email,
                         password |-> BcryptHash(password), created_at |-> now])
    /\ last' = [op |-> "register", email |-> email, status |-> 200,
                detail |-> "Hotel registered successfully"]
    /\ UNCHANGED <<agents, bills, s3, trips, flights, transports, stays, now, inflight>>

\* a variant without the existence check
register_unchecked(email, name, password) ==
    /\ hotels' = Append(hotels, [id |-> Len(hotels) + 1, name |-> name,
                                 email |-> email,
                                 password |-> BcryptHash(password),
                                 created_at |-> now])
    /\ last' = [op |-> "register", email |-> email, status |-> 200,
                detail |-> "Hotel registered successfully"]
    /\ UNCHANGED <<agents, bills, s3, trips, flights, transports, stays, now, inflight>>

register(email, name, password) ==
    IF Matching(hotels, LAMBDA r : r.email = email) # {}
    THEN /\ last' = [op |-> "register", email |-> email, status |-> 400,
                     detail |-> "Email already registered"]
         /\ UNCHANGED <<stores, now, inflight>>
    ELSE /\ hotels' = Append(hotels, [id |-> Len(hotels) + 1, name |-> name,
                                      email |-> email,
                                      password |-> BcryptHash(password),
                                      created_at |-> now])
         /\ last' = [op |-> "register", email |-> email, status |-> 200,
                     detail |-> "Hotel registered successfully"]
         /\ UNCHANGED <<agents, bills, s3, trips, flights, transports, stays, now, inflight>>

(***************************************************************************)
(* POST /auth/login                                                        *)
(***************************************************************************)
\* a variant that tells an unknown email from a wrong password
LoginReplyTelling(op, tbl, email, password, idkey, namekey, t) ==
    LET m == Matching(tbl, LAMBDA r : r.email = email) IN
    IF m = {}
    THEN [op |-> op, email |-> email, password |-> password, at |-> t, status |-> 400,
          detail |-> "Email not registered"]
    ELSE IF ~BcryptVerify(password, tbl[Least(m)].password)
    THEN [op |-> op, email |-> email, password |-> password, at |-> t, status |-> 400,
          detail |-> "Wrong password"]
    ELSE LET row == tbl[Least(m)] IN
         [op |-> op, email |-> email, password |-> password, at |-> t, status |-> 200,
          detail |-> "Login successful",
          access_token |-> create_access_token(
              [k \in {idkey, namekey} |-> IF k = idkey THEN row.id ELSE row.name], t),
          id |-> row.id, name |-> row.name]

LoginReply(op, tbl, email, password, idkey, namekey, t) ==
    LET m == Matching(tbl, LAMBDA r : r.email = email) IN
    IF m = {} \/ ~BcryptVerify(password, tbl[Least(m)].password)
    THEN [op |-> op, email |-> email, password |-> password, at |-> t, status |-> 400,
          detail |-> "Invalid email or password"]
    ELSE LET row == tbl[Least(m)] IN
         [op |-> op, email |-> email, password |-> password, at |-> t, status |-> 200,
          detail |-> "Login successful",
          access_token |-> create_access_token(
              [k \in {idkey, namekey} |-> IF k = idkey THEN row.id ELSE row.name], t),
          id |-> row.id, name |-> row.name]

login(email, password) ==
    /\ last' = LoginReply("login", hotels, email, password, "hotel_id", "hotel_name", now)
    /\ UNCHANGED <<stores, now, inflight>>

(***************************************************************************)
(* POST /auth/register-agent, POST /auth/login-agent                       *)
(***************************************************************************)
register_travel_agent(email, name, password) ==
    IF Matching(agents, LAMBDA r : r.email = email) # {}
    THEN /\ last' = [op |-> "register_travel_agent", email |-> email, status |-> 400,
                     detail |-> "Email already registered"]
         /\ UNCHANGED <<stores, now, inflight>>
    ELSE /\ agents' = Append(agents, [id |-> Len(agents) + 1, name |-> name,
                                      email |-> email,
                                      password |-> BcryptHash(password),
                                      created_at |-> now])
         /\ last' = [op |-> "register_travel_agent", email |-> email, status |-> 200,
                     detail |-> "Travel agent registered successfully",
                     agent_id |-> Len(agents) + 1, agent_name |-> name]
         /\ UNCHANGED <<hotels, bills, s3, trips, flights, transports, stays, now, inflight>>

login_travel_agent(email, password) ==
    /\ last' = LoginReply("login_travel_agent", agents, email, password,
                          "agent_id", "agent_name", now)
    /\ UNCHANGED <<stores, now, inflight>>

(***************************************************************************)
(* The register handlers under concurrent requests: every request runs in  *)
(* its own session; the existence query and the insert with its commit are *)
(* two steps, and other requests may run between them.                     *)
(***************************************************************************)
AccountTable(op) == IF op = "register" THEN hotels ELSE agents

\* a store without the unique index on email
unique_email_unenforced(tbl, email) == TRUE

\* Column(String(255), unique=True): the index accepts the insert
unique_email(tbl, email) == Matching(tbl, LAMBDA r : r.email = email) = {}

\* the existence query: reply 400, or go on to the insert
register_check(slot, op, email, name, password) ==
    /\ inflight[slot] = Idle
    /\ IF Matching(AccountTable(op), LAMBDA r : r.email = email) # {}
       THEN /\ last' = [op |-> op, email |-> email, status |-> 400,
                        detail |-> "Email already registered"]
            /\ UNCHANGED inflight
       ELSE /\ inflight' = [inflight EXCEPT ![slot] =
                               [op |-> op, email |-> email, name |-> name,
                                password |-> password]]
            /\ UNCHANGED last
    /\ UNCHANGED <<stores, now>>

\* db.add and db.commit: the insert, or the IntegrityError of the index
register_commit(slot) ==
    LET r == inflight[slot]
        tbl == AccountTable(r.op)
        row == [id |-> Len(tbl) + 1, name |-> r.name, email |-> r.email,
                password |-> BcryptHash(r.password), created_at |-> now]
    IN
    /\ r # Idle
    /\ inflight' = [inflight EXCEPT ![slot] = Idle]
    /\ IF ~unique_email(tbl, r.email)
       THEN /\ last' = [op |-> r.op, email |-> r.email, status |-> 500,
                        detail |-> "Internal Server Error"]
            /\ UNCHANGED <<stores, now>>
       ELSE /\ hotels' = IF r.op = "register" THEN Append(hotels, row) ELSE hotels
            /\ agents' = IF r.op = "register" THEN agents ELSE Append(agents, row)
            /\ last' = IF r.op = "register"
                       THEN [op |-> r.op, email |-> r.email, status |-> 200,
                             detail |-> "Hotel registered successfully"]
                       ELSE [op |-> r.op, email |-> r.email, status |-> 200,
                             detail |-> "Travel agent registered successfully",
                             agent_id |-> row.id, agent_name |-> r.name]
            /\ UNCHANGED <<bills, s3, trips, flights, transports, stays, now>>

(***************************************************************************)
(* POST /bills/upload                                                      *)
(***************************************************************************)
\* float(bill_amount) on the amount strings of the model: a finite value (in
\* tenths), a NaN, or a ValueError.  float() accepts "nan".
Float(s) ==
    CASE s = "450"    -> [tag |-> "num", tenths |-> 4500]
      [] s = "1250.5" -> [tag |-> "num", tenths |-> 12505]
      [] s = "0"      -> [tag |-> "num", tenths |-> 0]
      [] s = "-5"     -> [tag |-> "num", tenths |-> -50]
      [] s = "nan"    -> [tag |-> "nan", tenths |-> 0]
      [] s = "900"    -> [tag |-> "num", tenths |-> 9000]
      [] s = "2501"   -> [tag |-> "num", tenths |-> 25010]
      [] s = "-10"    -> [tag |-> "num", tenths |-> -100]
      [] OTHER        -> [tag |-> "ValueError", tenths |-> 0]

\* str.lower() on the unit and vehicle strings of the model
Lower(s) ==
    CASE s = "kWh" -> "kwh"
      [] s = "KWH" -> "kwh"
      [] s = "Liters" -> "liters"
      [] s = "GAL" -> "gal"
      [] s = "Bus" -> "bus"
      [] s = "TRAIN" -> "train"
      [] OTHER -> s

\* valid_units.get(bill_type, [])
valid_units(bill_type) ==
    CASE bill_type = "electricity" -> {"kWh", "kw", "kwh", "kilowatt-hours", "units"}
      [] bill_type = "water" -> {"liters", "litres", "gallons", "cubic meters", "m3", "l", "gal"}
      [] OTHER -> {}

\* The input validation of upload_bill, in the order of the code: the detail
\* of the first failing check, or "ok".
\* a variant that looks at the unit before the amount
validate_bill_unit_early(bill_type, bill_month, bill_year, bill_amount, unit, current_year) ==
    IF bill_type \notin {"electricity", "water"}
        THEN "Invalid bill type"
    ELSE IF ~(1 <= bill_month /\ bill_month <= 12)
        THEN "Invalid month"
    ELSE IF bill_year < MinBillYear \/ bill_year > current_year + 1
        THEN "Invalid year"
    ELSE IF Lower(unit) \notin {Lower(u) : u \in valid_units(bill_type)}
        THEN "Invalid unit"
    ELSE IF Float(bill_amount).tag = "ValueError"
        THEN "Bill amount must be a valid number"
    ELSE IF Float(bill_amount).tag = "num" /\ Float(bill_amount).tenths < 0
        THEN "Bill amount must be a positive number"
    ELSE "ok"

validate_bill(bill_type, bill_month, bill_year, bill_amount, unit, current_year) ==
    IF bill_type \notin {"electricity", "water"}
        THEN "Invalid bill type"
    ELSE IF ~(1 <= bill_month /\ bill_month <= 12)
        THEN "Invalid month"
    ELSE IF bill_year < MinBillYear \/ bill_year > current_year + 1
        THEN "Invalid year"
    ELSE IF Float(bill_amount).tag = "ValueError"
        THEN "Bill amount must be a valid number"
    ELSE IF Float(bill_amount).tag = "num" /\ Float(bill_amount).tenths < 0
        THEN "Bill amount must be a positive number"
    ELSE IF Lower(unit) \notin {Lower(u) : u \in valid_units(bill_type)}
        THEN "Invalid unit"
    ELSE "ok"

\* f"{hotel_id}_{bill_type}_{bill_year}_{bill_month}_{timestamp}_{file.filename}"
Filename(hotel_id, bill_type, bill_year, bill_month, timestamp, fname) ==
    <<hotel_id, bill_type, bill_year, bill_month, timestamp, fname>>

FileUrl(filename) == <<"https://bucket.s3.amazonaws.com/", filename>>

\* Variants of the handler with its steps in another order: early_store
\* writes the object before the validation, early_insert adds the row
\* before the storage call.
upload_bill_reordered(early_store, early_insert, cred, ms, bill_type, bill_month,
                      bill_year, bill_amount, unit, fname, s3ok, dbok) ==
    LET who == get_current_hotel(cred, now, ms)
        v == validate_bill(bill_type, bill_month, bill_year, bill_amount, unit,
                           CurrentYear(now))
        filename == Filename(who.hotel_id, bill_type, bill_year, bill_month, now, fname)
        reply(status, detail) ==
            [op |-> "upload_bill", cred |-> cred, at |-> now,
             bill_type |-> bill_type, bill_month |-> bill_month,
             bill_year |-> bill_year, bill_amount |-> bill_amount, unit |-> unit,
             s3ok |-> s3ok, dbok |-> dbok, status |-> status, detail |-> detail]
        row == [id |-> Len(bills) + 1,
                hotel_id |-> who.hotel_id, hotel_name |-> who.hotel_name,
                bill_type |-> bill_type, bill_month |-> bill_month,
                bill_year |-> bill_year, bill_amount |-> bill_amount,
                unit |-> unit, file_url |-> FileUrl(filename)]
    IN
    IF ~who.ok
    THEN /\ last' = reply(who.status, who.detail)
         /\ UNCHANGED <<stores, now, inflight>>
    ELSE IF v # "ok"
    THEN /\ last' = reply(400, v)
         /\ s3' = IF early_store THEN s3 \cup {filename} ELSE s3
         /\ UNCHANGED <<hotels, agents, bills, trips, flights, transports, stays, now, inflight>>
    ELSE IF ~s3ok
    THEN /\ last' = reply(500, "Upload failed")
         /\ IF early_insert THEN Len(SelectSeq(bills, LAMBDA b : b.hotel_id = who.hotel_id)) < MaxBills /\ bills' = Append(bills, row)
            ELSE UNCHANGED bills
         /\ UNCHANGED <<hotels, agents, s3, trips, flights, transports, stays, now, inflight>>
    ELSE /\ Len(SelectSeq(bills, LAMBDA b : b.hotel_id = who.hotel_id)) < MaxBills
         /\ s3' = s3 \cup {filename}
         /\ bills' = Append(bills, row)
         /\ last' = [k \in (DOMAIN reply(200, "")) \cup {"id", "file_url"} |->
                        CASE k = "id" -> row.id
                          [] k = "file_url" -> row.file_url
                          [] OTHER -> reply(200, "Bill uploaded successfully")[k]]
         /\ UNCHANGED <<hotels, agents, trips, flights, transports, stays, now, inflight>>

upload_bill_store_first(cred, ms, bill_type, bill_month, bill_year, bill_amount, unit, fname, s3ok, dbok) ==
    upload_bill_reordered(TRUE, FALSE, cred, ms, bill_type, bill_month, bill_year,
                          bill_amount, unit, fname, s3ok, dbok)

upload_bill_insert_first(cred, ms, bill_type, bill_month, bill_year, bill_amount, unit, fname, s3ok, dbok) ==
    upload_bill_reordered(FALSE, TRUE, cred, ms, bill_type, bill_month, bill_year,
                          bill_amount, unit, fname, s3ok, dbok)

\* s3ok: the storage call succeeds; dbok: the insert and commit succeed
upload_bill(cred, ms, bill_type, bill_month, bill_year, bill_amount, unit, fname, s3ok, dbok) ==
    LET who == get_current_hotel(cred, now, ms)
        req == [op |-> "upload_bill", cred |-> cred, at |-> now,
                bill_type |-> bill_type, bill_month |-> bill_month,
                bill_year |-> bill_year, bill_amount |-> bill_amount, unit |-> unit,
                s3ok |-> s3ok, dbok |-> dbok]
        fail(status, detail) ==
            [k \in (DOMAIN req) \cup {"status", "detail"} |->
                IF k = "status" THEN status ELSE IF k = "detail" THEN detail ELSE req[k]]
    IN
    IF ~who.ok
    THEN /\ last' = fail(who.status, who.detail)
         /\ UNCHANGED <<stores, now, inflight>>
    ELSE LET v == validate_bill(bill_type, bill_month, bill_year, bill_amount, unit,
                                CurrentYear(now))
             filename == Filename(who.hotel_id, bill_type, bill_year, bill_month, now, fname)
             row == [id |-> Len(bills) + 1,
                     hotel_id |-> who.hotel_id, hotel_name |-> who.hotel_name,
                     bill_type |-> bill_type, bill_month |-> bill_month,
                     bill_year |-> bill_year, bill_amount |-> bill_amount,
                     unit |-> unit, file_url |-> FileUrl(filename)]
         IN
         IF v # "ok"
         THEN /\ last' = fail(400, v)
              /\ UNCHANGED <<stores, now, inflight>>
         ELSE IF ~s3ok
         THEN /\ last' = fail(500, "Upload failed")
              /\ UNCHANGED <<stores, now, inflight>>
         ELSE IF ~dbok
         THEN /\ Cardinality(s3) <= MaxBills
              /\ s3' = s3 \cup {filename}
              /\ last' = fail(500, "Upload failed")
              /\ UNCHANGED <<hotels, agents, bills, trips, flights, transports, stays, now, inflight>>
         ELSE /\ Len(SelectSeq(bills, LAMBDA b : b.hotel_id = who.hotel_id)) < MaxBills
              /\ s3' = s3 \cup {filename}
              /\ bills' = Append(bills, row)
              /\ last' = [k \in (DOMAIN req) \cup {"status", "detail", "id", "file_url"} |->
                            CASE k = "status" -> 200
                              [] k = "detail" -> "Bill uploaded successfully"
                              [] k = "id" -> row.id
                              [] k = "file_url" -> row.file_url
                              [] OTHER -> req[k]]
              /\ UNCHANGED <<hotels, agents, trips, flights, transports, stays, now, inflight>>

(***************************************************************************)
(* GET /bills/my-bills                                                     *)
(***************************************************************************)
\* query(UtilityBill).filter(hotel_id == hotel_id).all(): the rows, in id order
bills_of_any_hotel(tbl, hotel_id) == tbl

bills_of_hotel(tbl, hotel_id) == SelectSeq(tbl, LAMBDA b : b.hotel_id = hotel_id)

get_my_bills(cred, ms) ==
    LET who == get_current_hotel(cred, now, ms) IN
    /\ last' = IF ~who.ok
               THEN [op |-> "get_my_bills", cred |-> cred, at |-> now,
                     status |-> who.status, detail |-> who.detail]
               ELSE [op |-> "get_my_bills", cred |-> cred, at |-> now,
                     status |-> 200, detail |-> "",
                     bills |-> bills_of_hotel(bills, who.hotel_id)]
    /\ UNCHANGED <<stores, now, inflight>>

(***************************************************************************)
(* GET /bills/carbon-footprint                                             *)
(***************************************************************************)
RECURSIVE SumSeq(_)
SumSeq(s) == IF s = <<>> THEN 0 ELSE Head(s) + SumSeq(Tail(s))

\* round half to even of num / den, for num >= 0 and den > 0
RoundDiv(num, den) ==
    LET q == num \div den
        r == num % den
    IN IF 2 * r < den THEN q
       ELSE IF 2 * r > den THEN q + 1
       ELSE IF q % 2 = 0 THEN q ELSE q + 1

\* round(x, 3) of a mass x given in carbon units: whole grams
Round3(units) == RoundDiv(units, CarbonScale \div 1000)

\* emission_factors.get(bill_type, 0) of calculate_carbon_footprint
footprint_factor(bill_type) ==
    CASE bill_type = "electricity" -> FootprintElectricityFactor
      [] bill_type = "water" -> FootprintWaterFactor
      [] OTHER -> 0

\* A variant of the loop that starts each bill's emissions from a fixed
\* base of one carbon unit.
footprint_total_affine(sel) ==
    [nan |-> \E i \in 1..Len(sel) : Float(sel[i].bill_amount).tag = "nan",
     units |-> SumSeq([i \in 1..Len(sel) |->
                  IF Float(sel[i].bill_amount).tag = "num"
                  THEN 1 + Float(sel[i].bill_amount).tenths * footprint_factor(sel[i].bill_type)
                  ELSE 0])]

\* The loop of calculate_carbon_footprint over the selected bills: the sum of
\* amount * factor in carbon units; a bill whose amount raises ValueError is
\* skipped, a NaN amount makes the sum NaN.
footprint_total(sel) ==
    [nan |-> \E i \in 1..Len(sel) : Float(sel[i].bill_amount).tag = "nan",
     units |-> SumSeq([i \in 1..Len(sel) |->
                  IF Float(sel[i].bill_amount).tag = "num"
                  THEN Float(sel[i].bill_amount).tenths * footprint_factor(sel[i].bill_type)
                  ELSE 0])]

\* The query parameter year: <<>> when absent, <<y>> when supplied.
NoYear == <<>>

\* a variant that filters by the year alone
footprint_bills_of_any_hotel(tbl, hotel_id, year) ==
    SelectSeq(tbl, LAMBDA b : year = NoYear \/ year[1] = 0 \/ b.bill_year = year[1])

\* `if year:` adds the year filter; it is false for an absent year and for 0
footprint_bills(tbl, hotel_id, year) ==
    SelectSeq(tbl, LAMBDA b : /\ b.hotel_id = hotel_id
                              /\ (year = NoYear \/ year[1] = 0 \/ b.bill_year = year[1]))

\* A NaN total cannot be encoded as JSON by the framework: status 500.
calculate_carbon_footprint(cred, ms, year) ==
    LET who == get_current_hotel(cred, now, ms)
        sel == footprint_bills(bills, who.hotel_id, year)
        total == footprint_total(sel)
    IN
    /\ last' = IF ~who.ok
               THEN [op |-> "calculate_carbon_footprint", cred |-> cred, at |-> now,
                     year |-> year, status |-> who.status, detail |-> who.detail]
               ELSE IF total.nan
               THEN [op |-> "calculate_carbon_footprint", cred |-> cred, at |-> now,
                     year |-> year, status |-> 500, detail |-> "Internal Server Error"]
               ELSE [op |-> "calculate_carbon_footprint", cred |-> cred, at |-> now,
                     status |-> 200, detail |-> "", year |-> year,
                     hotel_name |-> who.hotel_name,
                     bills |-> sel,
                     total_co2_kg |-> Round3(total.units)]
    /\ UNCHANGED <<stores, now, inflight>>

(***************************************************************************)
(* Carbon accounting for trips                                             *)
(***************************************************************************)
\* airport_distances.get((departure, arrival)): km, 0 for an absent key
airport_distances(departure, arrival) ==
    CASE departure = "JFK" /\ arrival = "LHR" -> 5550
      [] departure = "LHR" /\ arrival = "CDG" -> 350
      [] departure = "CDG" /\ arrival = "FCO" -> 1110
      [] departure = "FCO" /\ arrival = "ATH" -> 1050
      [] OTHER -> 0

\* a variant without the default distance
calculate_flight_carbon_no_default(departure, arrival, passengers) ==
    LET fwd == airport_distances(departure, arrival)
        found == IF fwd # 0 THEN fwd ELSE airport_distances(arrival, departure)
    IN found * FlightFactor * (CarbonScale \div 1000) * passengers

\* a variant that looks the route up in the given direction only
calculate_flight_carbon_one_way(departure, arrival, passengers) ==
    LET fwd == airport_distances(departure, arrival)
        distance == IF fwd = 0 THEN DefaultFlightKm ELSE fwd
    IN distance * FlightFactor * (CarbonScale \div 1000) * passengers

\* distance * 0.255 * passengers, in carbon units
calculate_flight_carbon(departure, arrival, passengers) ==
    LET fwd == airport_distances(departure, arrival)
        found == IF fwd # 0 THEN fwd ELSE airport_distances(arrival, departure)
        distance == IF found = 0 THEN DefaultFlightKm ELSE found
    IN distance * FlightFactor * (CarbonScale \div 1000) * passengers

\* transport_factors.get(key, 0.171), in thousandths of a kg per passenger-km
transport_factors(key) ==
    CASE key = "bus" -> 89
      [] key = "car" -> 171
      [] key = "train" -> 41
      [] key = "taxi" -> 171
      [] key = "metro" -> 33
      [] OTHER -> DefaultTransportFactor

\* a variant that looks the type up as it is written
transport_factor_case_sensitive(vehicle_type) == transport_factors(vehicle_type)

transport_factor(vehicle_type) == transport_factors(Lower(vehicle_type))

\* distance_km * factor * passengers; distance in tenths of a km
calculate_transport_carbon(vehicle_type, distance_tenths, passengers) ==
    distance_tenths * transport_factor(vehicle_type) * passengers

\* a variant that counts whole rooms
calculate_hotel_stay_carbon_whole_rooms(hotel_id, nights, guests, tbl) ==
    IF bills_of_hotel(tbl, hotel_id) = <<>>
    THEN [err |-> FALSE,
          units |-> DefaultHotelKgPerRoomNight * CarbonScale * nights * (guests \div 2)]
    ELSE [err |-> TRUE, units |-> 0]

\* calculate_hotel_stay_carbon.  With no bill on record the default; with a
\* bill on record the loop reads bill.consumption_amount, an attribute the
\* UtilityBill model does not have: AttributeError.
calculate_hotel_stay_carbon(hotel_id, nights, guests, tbl) ==
    IF bills_of_hotel(tbl, hotel_id) = <<>>
    THEN [err |-> FALSE,
          units |-> (DefaultHotelKgPerRoomNight * CarbonScale * nights * guests) \div 2]
    ELSE [err |-> TRUE, units |-> 0]

flights_of_trip(trip_id) == SelectSeq(flights, LAMBDA r : r.trip_id = trip_id)

transports_of_trip(trip_id) == SelectSeq(transports, LAMBDA r : r.trip_id = trip_id)

stays_of_trip(trip_id) == SelectSeq(stays, LAMBDA r : r.trip_id = trip_id)

\* calculate_trip_total_carbon, from the stored rows and the current bills
calculate_trip_total_carbon(trip_id) ==
    LET m == Matching(trips, LAMBDA r : r.id = trip_id) IN
    IF m = {} THEN [err |-> FALSE, units |-> 0]
    ELSE LET trip == trips[Least(m)]
             fl == flights_of_trip(trip_id)
             tr == transports_of_trip(trip_id)
             st == stays_of_trip(trip_id)
             hs == [i \in 1..Len(st) |->
                      calculate_hotel_stay_carbon(st[i].hotel_id, st[i].number_of_nights,
                                                  trip.number_of_tourists, bills)]
         IN [err |-> \E i \in 1..Len(st) : hs[i].err,
             units |-> SumSeq([i \in 1..Len(fl) |->
                          calculate_flight_carbon(fl[i].departure_airport,
                              fl[i].arrival_airport, trip.number_of_tourists)])
                     + SumSeq([i \in 1..Len(tr) |->
                          calculate_transport_carbon(tr[i].vehicle_type,
                              tr[i].distance_km, trip.number_of_tourists)])
                     + SumSeq([i \in 1..Len(st) |-> hs[i].units])]

\* total_carbon / number_of_tourists if number_of_tourists > 0 else 0, as a
\* fraction of carbon units
carbon_per_tourist_undivided(total, number_of_tourists) == [num |-> total, den |-> 1]

carbon_per_tourist(total, number_of_tourists) ==
    IF number_of_tourists > 0
    THEN [num |-> total, den |-> number_of_tourists]
    ELSE [num |-> 0, den |-> 1]

Round3Frac(q) == RoundDiv(q.num, q.den * (CarbonScale \div 1000))

(***************************************************************************)
(* POST /trips/create                                                      *)
(***************************************************************************)
\* Extends a record by the fields of another one.
With(rec, more) ==
    [k \in (DOMAIN rec) \cup (DOMAIN more) |-> IF k \in DOMAIN more THEN more[k] ELSE rec[k]]

\* The rows create_trip adds for the components of the request; the carbon
\* columns are never assigned and keep the column default 0.0.
new_flights(trip_id, segs) ==
    [i \in 1..Len(segs) |->
        [id |-> Len(flights) + i, trip_id |-> trip_id,
         departure_airport |-> segs[i].departure_airport,
         arrival_airport |-> segs[i].arrival_airport,
         carbon_kg_per_passenger |-> 0]]

new_transports(trip_id, segs) ==
    [i \in 1..Len(segs) |->
        [id |-> Len(transports) + i, trip_id |-> trip_id,
         vehicle_type |-> segs[i].vehicle_type,
         distance_km |-> segs[i].distance_km,
         carbon_kg_total |-> 0]]

new_stays(trip_id, segs) ==
    [i \in 1..Len(segs) |->
        [id |-> Len(stays) + i, trip_id |-> trip_id,
         hotel_id |-> segs[i].hotel_id,
         number_of_nights |-> segs[i].number_of_nights,
         carbon_kg_total |-> 0]]

\* models.Trip(...) of create_trip: total_carbon_kg keeps its default 0.0
new_trip(trip_id, agent_id, trip) ==
    [id |-> trip_id, travel_agent_id |-> agent_id,
     number_of_tourists |-> trip.number_of_tourists,
     total_carbon_kg |-> 0]

\* hotel_stays.hotel_id is a foreign key to hotels.id, checked at the commit
stays_fk_ok(segs) ==
    \A i \in 1..Len(segs) : Matching(hotels, LAMBDA h : h.id = segs[i].hotel_id) # {}

\* a variant of the total that leaves the hotel stays out
trip_total_without_hotels(flights_carbon, transport_carbon, hotels_carbon) ==
    flights_carbon + transport_carbon

\* total_carbon = total_flights_carbon + total_transport_carbon + total_hotels_carbon
trip_total(flights_carbon, transport_carbon, hotels_carbon) ==
    flights_carbon + transport_carbon + hotels_carbon

create_trip(cred, ms, trip) ==
    LET who == get_current_travel_agent(cred, now, agents, ms)
        req == [op |-> "create_trip", cred |-> cred, at |-> now, trip |-> trip]
        n == trip.number_of_tourists
        trip_id == Len(trips) + 1
        fc == [i \in 1..Len(trip.flight_segments) |->
                 calculate_flight_carbon(trip.flight_segments[i].departure_airport,
                                         trip.flight_segments[i].arrival_airport, n)]
        tc == [i \in 1..Len(trip.local_transports) |->
                 calculate_transport_carbon(trip.local_transports[i].vehicle_type,
                                            trip.local_transports[i].distance_km, n)]
        hc == [i \in 1..Len(trip.hotel_stays) |->
                 calculate_hotel_stay_carbon(trip.hotel_stays[i].hotel_id,
                     trip.hotel_stays[i].number_of_nights, n, bills)]
        total_flights_carbon == SumSeq(fc)
        total_transport_carbon == SumSeq(tc)
        total_hotels_carbon == SumSeq([i \in 1..Len(hc) |-> hc[i].units])
        total_carbon == trip_total(total_flights_carbon, total_transport_carbon,
                                   total_hotels_carbon)
    IN
    IF ~who.ok
    THEN /\ last' = With(req, [status |-> who.status, detail |-> who.detail])
         /\ UNCHANGED <<stores, now, inflight>>
    ELSE IF n <= 0
    THEN \* TripCreate.number_of_tourists: Field(gt=0)
         /\ last' = With(req, [status |-> 422, detail |-> "validation error"])
         /\ UNCHANGED <<stores, now, inflight>>
    ELSE /\ Len(trips) < MaxTrips
         /\ trips' = Append(trips, new_trip(trip_id, who.agent.id, trip))
         /\ IF (\E i \in 1..Len(hc) : hc[i].err) \/ ~stays_fk_ok(trip.hotel_stays)
            THEN \* the trip row is committed, the pending child rows are lost
                 /\ last' = With(req, [status |-> 500, detail |-> "Internal Server Error",
                                       committed_trip_id |-> trip_id])
                 /\ UNCHANGED <<flights, transports, stays>>
            ELSE /\ flights' = flights \o new_flights(trip_id, trip.flight_segments)
                 /\ transports' = transports \o new_transports(trip_id, trip.local_transports)
                 /\ stays' = stays \o new_stays(trip_id, trip.hotel_stays)
                 /\ last' = With(req,
                       [status |-> 200, detail |-> "",
                        trip_id |-> trip_id,
                        committed_trip_id |-> trip_id,
                        number_of_tourists |-> n,
                        total_carbon |-> total_carbon,
                        total_carbon_kg |-> Round3(total_carbon),
                        carbon_per_tourist_kg |-> Round3Frac(carbon_per_tourist(total_carbon, n)),
                        flights_carbon_kg |-> Round3(total_flights_carbon),
                        transport_carbon_kg |-> Round3(total_transport_carbon),
                        hotels_carbon_kg |-> Round3(total_hotels_carbon),
                        flight_details |-> fc,
                        transport_details |-> tc,
                        hotel_details |-> [i \in 1..Len(hc) |-> hc[i].units]])
         /\ UNCHANGED <<hotels, agents, bills, s3, now, inflight>>

(***************************************************************************)
(* GET /trips/my-trips                                                     *)
(***************************************************************************)
trips_of_agent(agent_id) == SelectSeq(trips, LAMBDA r : r.travel_agent_id = agent_id)

trip_summary(trip) ==
    LET total == calculate_trip_total_carbon(trip.id).units IN
    [trip_id |-> trip.id,
     number_of_tourists |-> trip.number_of_tourists,
     total_carbon |-> total,
     total_carbon_kg |-> Round3(total),
     carbon_per_tourist_kg |-> Round3Frac(carbon_per_tourist(total, trip.number_of_tourists))]

get_my_trips(cred, ms) ==
    LET who == get_current_travel_agent(cred, now, agents, ms)
        req == [op |-> "get_my_trips", cred |-> cred, at |-> now]
        mine == trips_of_agent(who.agent.id)
    IN
    /\ last' = IF ~who.ok
               THEN With(req, [status |-> who.status, detail |-> who.detail])
               ELSE IF \E i \in 1..Len(mine) : calculate_trip_total_carbon(mine[i].id).err
               THEN With(req, [status |-> 500, detail |-> "Internal Server Error"])
               ELSE With(req, [status |-> 200, detail |-> "",
                               agent_name |-> who.agent.name,
                               total_trips |-> Len(mine),
                               trips |-> [i \in 1..Len(mine) |-> trip_summary(mine[i])]])
    /\ UNCHANGED <<stores, now, inflight>>

(***************************************************************************)
(* GET /trips/{trip_id}/carbon                                             *)
(***************************************************************************)
\* a variant that looks the trip up by id alone and then compares the owner
trip_detail_reply_forbidden(agent, trip_id) ==
    LET m == Matching(trips, LAMBDA r : r.id = trip_id) IN
    IF m = {} THEN [status |-> 404, detail |-> "Trip not found"]
    ELSE IF trips[Least(m)].travel_agent_id # agent.id
    THEN [status |-> 403, detail |-> "Forbidden"]
    ELSE [status |-> 200, detail |-> ""]

trip_detail_reply(agent, trip_id) ==
    LET m == Matching(trips, LAMBDA r : r.id = trip_id /\ r.travel_agent_id = agent.id) IN
    IF m = {}
    THEN [status |-> 404, detail |-> "Trip not found"]
    ELSE LET trip == trips[Least(m)]
             total == calculate_trip_total_carbon(trip_id)
         IN IF total.err \/ trip.number_of_tourists = 0
            THEN \* AttributeError of the hotel stay, or ZeroDivisionError
                 [status |-> 500, detail |-> "Internal Server Error"]
            ELSE [status |-> 200, detail |-> "",
                  trip_id |-> trip.id,
                  number_of_tourists |-> trip.number_of_tourists,
                  total_carbon |-> total.units,
                  total_carbon_kg |-> Round3(total.units),
                  carbon_per_tourist_kg |->
                      RoundDiv(total.units,
                               trip.number_of_tourists * (CarbonScale \div 1000)),
                  flights_breakdown |-> <<>>,
                  transport_breakdown |-> <<>>,
                  hotels_breakdown |-> <<>>]

get_trip_carbon_details(cred, ms, trip_id) ==
    LET who == get_current_travel_agent(cred, now, agents, ms)
        req == [op |-> "get_trip_carbon_details", cred |-> cred, at |-> now,
                trip_id |-> trip_id]
    IN
    /\ last' = IF ~who.ok
               THEN With(req, [status |-> who.status, detail |-> who.detail])
               ELSE With(trip_detail_reply(who.agent, trip_id), req)
    /\ UNCHANGED <<stores, now, inflight>>

(***************************************************************************)
(* The requests of the model.                                              *)
(***************************************************************************)
Flight(d, a) == [departure_airport |-> d, arrival_airport |-> a]

Transport(v, d) == [vehicle_type |-> v, distance_km |-> d]

Stay(h, k) == [hotel_id |-> h, number_of_nights |-> k]

TripRequest(n, f, t, h) ==
    [number_of_tourists |-> n, flight_segments |-> f, local_transports |-> t,
     hotel_stays |-> h]

\* hotel id 3 has no account (at most two hotels register)
TripOk == TripRequest(3, <<Flight("JFK", "LHR")>>, <<Transport("bus", 2505)>>, <<>>)

TripInputs ==
    {TripRequest(0, <<>>, <<>>, <<>>),
     TripOk,
     TripRequest(3, <<>>, <<>>, <<Stay(1, 3)>>),
     TripRequest(2, <<Flight("LHR", "JFK")>>, <<Transport("Bus", 10)>>, <<Stay(1, 2)>>),
     TripRequest(3, <<Flight("XXX", "YYY")>>, <<>>, <<Stay(3, 1)>>)}

TripIds == 1..(MaxTrips + 1)

\* Upload requests: valid ones, one for each rule broken alone, and some that
\* break several rules; with the outcome of the storage call and of the insert.
Upload(bt, m, y, a, u, s3ok, dbok) ==
    [bill_type |-> bt, bill_month |-> m, bill_year |-> y, bill_amount |-> a,
     unit |-> u, s3ok |-> s3ok, dbok |-> dbok]

UploadOk == Upload("electricity", 3, BaseYear, "450", "kWh", TRUE, TRUE)

UploadCases ==
    {UploadOk,
     Upload("electricity", 3, BaseYear, "450", "kWh", FALSE, TRUE),
     Upload("electricity", 3, BaseYear, "450", "kWh", TRUE, FALSE),
     Upload("water", 12, BaseYear + 2, "1250.5", "Liters", TRUE, TRUE),
     Upload("electricity", 1, MinBillYear, "nan", "KWH", TRUE, TRUE),
     Upload("electricity", 1, MinBillYear, "nan", "liters", TRUE, TRUE),
     Upload("gas", 3, BaseYear, "450", "kWh", TRUE, TRUE),
     Upload("electricity", 0, BaseYear, "450", "kWh", TRUE, TRUE),
     Upload("electricity", 13, BaseYear, "450", "kWh", TRUE, TRUE),
     Upload("electricity", 3, MinBillYear - 1, "450", "kWh", TRUE, TRUE),
     Upload("electricity", 3, BaseYear, "-5", "kWh", TRUE, TRUE),
     Upload("electricity", 3, BaseYear, "abc", "kWh", TRUE, TRUE),
     Upload("electricity", 3, BaseYear, "450", "liters", TRUE, TRUE),
     Upload("gas", 13, MinBillYear - 1, "abc", "watts", TRUE, TRUE),
     Upload("water", 13, MinBillYear - 1, "-5", "kWh", TRUE, TRUE),
     Upload("water", 3, BaseYear + 2, "abc", "kWh", TRUE, TRUE)}

upload_case(c, ms, u) ==
    upload_bill(c, ms, u.bill_type, u.bill_month, u.bill_year, u.bill_amount, u.unit,
                "bill.pdf", u.s3ok, u.dbok)

(***************************************************************************)
(* The whole service, each handler on a small set of inputs.               *)
(***************************************************************************)
Next ==
    \/ \E e \in Emails, n \in Names, p \in RegisterPasswords : register(e, n, p)
    \/ \E e \in Emails, p \in Passwords : login(e, p)
    \/ \E e \in Emails, n \in Names, p \in RegisterPasswords : register_travel_agent(e, n, p)
    \/ \E e \in Emails, p \in Passwords : login_travel_agent(e, p)
    \/ \E c \in Creds : \E ms \in MissingStatusFor(c) : upload_case(c, ms, UploadOk)
    \/ \E c \in Creds : \E ms \in MissingStatusFor(c) : get_my_bills(c, ms)
    \/ \E c \in Creds : \E ms \in MissingStatusFor(c) : calculate_carbon_footprint(c, ms, NoYear)
    \/ \E c \in Creds : \E ms \in MissingStatusFor(c) : create_trip(c, ms, TripOk)
    \/ \E c \in Creds : \E ms \in MissingStatusFor(c) : get_my_trips(c, ms)
    \/ \E c \in Creds : \E ms \in MissingStatusFor(c), id \in TripIds :
          get_trip_carbon_details(c, ms, id)

Spec == Init /\ [][Next]_vars

(***************************************************************************)
(* The trip ledger: one hotel that may upload a bill, the travel agents    *)
(* and their trips, with trips of every shape.                             *)
(***************************************************************************)
TripsNext ==
    \/ \E n \in Names, p \in RegisterPasswords : register("a@x", n, p)
    \/ \E e \in Emails, n \in Names, p \in RegisterPasswords : register_travel_agent(e, n, p)
    \/ \E c \in HotelTokens : upload_case(c, 401, UploadOk)
    \/ \E c \in Creds : \E ms \in MissingStatusFor(c), t \in TripInputs : create_trip(c, ms, t)
    \/ \E c \in Creds : \E ms \in MissingStatusFor(c) : get_my_trips(c, ms)
    \/ \E c \in Creds : \E ms \in MissingStatusFor(c), id \in TripIds :
          get_trip_carbon_details(c, ms, id)

SpecTrips == Init /\ [][TripsNext]_vars

(***************************************************************************)
(* The bill ledger: one hotel, the clock, and uploads of every shape.      *)
(***************************************************************************)
BillsNext ==
    \/ Tick
    \/ \E n \in Names, p \in RegisterPasswords : register("a@x", n, p)
    \/ \E p \in Passwords : login("a@x", p)
    \/ \E c \in Creds : \E ms \in MissingStatusFor(c), u \in UploadCases :
          upload_case(c, ms, u)
    \/ \E c \in Creds : \E ms \in MissingStatusFor(c) : get_my_bills(c, ms)
    \/ \E c \in Creds : \E ms \in MissingStatusFor(c), y \in {NoYear, <<0>>, <<BaseYear>>} :
          calculate_carbon_footprint(c, ms, y)

SpecBills == Init /\ [][BillsNext]_vars

(***************************************************************************)
(* The identity store and the credential service alone.                    *)
(***************************************************************************)
AuthNext ==
    \/ Tick
    \/ \E e \in Emails, n \in Names, p \in RegisterPasswords : register(e, n, p)
    \/ \E e \in Emails, p \in Passwords : login(e, p)
    \/ \E e \in Emails, n \in Names, p \in RegisterPasswords : register_travel_agent(e, n, p)
    \/ \E e \in Emails, p \in Passwords : login_travel_agent(e, p)

SpecAuth == Init /\ [][AuthNext]_vars

(***************************************************************************)
(* Concurrent registrations of both kinds.                                 *)
(***************************************************************************)
RaceNext ==
    \/ \E slot \in 1..MaxInflight, op \in {"register", "register_travel_agent"},
          e \in Emails, n \in Names, p \in RegisterPasswords :
          register_check(slot, op, e, n, p)
    \/ \E slot \in 1..MaxInflight : register_commit(slot)

SpecRace == Init /\ [][RaceNext]_vars

(***************************************************************************)
(* Token lifetime: one hotel and one agent, the finer clock, logins and    *)
(* token use at every time.                                                *)
(***************************************************************************)
ClockNext ==
    \/ Advance
    \/ \E n \in Names, p \in RegisterPasswords : register("a@x", n, p)
    \/ \E n \in Names, p \in RegisterPasswords : register_travel_agent("a@x", n, p)
    \/ \E p \in RegisterPasswords : login("a@x", p)
    \/ \E p \in RegisterPasswords : login_travel_agent("a@x", p)
    \/ \E c \in HotelTokensAt(ClockTimes) : get_my_bills(c, 401)
    \/ \E c \in AgentTokensAt(ClockTimes) : get_my_trips(c, 401)

SpecClock == Init /\ [][ClockNext]_vars

(***************************************************************************)
(* The carbon functions applied to arguments of every shape, over a bill   *)
(* ledger that one hotel may have written to.                              *)
(***************************************************************************)
Airports == {"JFK", "LHR", "CDG", "XXX", "YYY"}

Vehicles == {"bus", "Bus", "car", "train", "TRAIN", "taxi", "metro", "tuk-tuk"}

DistancesTenths == {10, 2505}

Passengers == (1..MaxPassengers) \cup {10, 15}

HotelIds == 1..3

apply_flight_carbon(departure, arrival, passengers) ==
    /\ last' = [op |-> "calculate_flight_carbon", status |-> 0,
                departure |-> departure, arrival |-> arrival, passengers |-> passengers,
                result |-> calculate_flight_carbon(departure, arrival, passengers)]
    /\ UNCHANGED <<stores, now, inflight>>

apply_transport_carbon(vehicle_type, distance_tenths, passengers) ==
    /\ last' = [op |-> "calculate_transport_carbon", status |-> 0,
                vehicle_type |-> vehicle_type, distance_km |-> distance_tenths,
                passengers |-> passengers,
                result |-> calculate_transport_carbon(vehicle_type, distance_tenths,
                                                      passengers)]
    /\ UNCHANGED <<stores, now, inflight>>

apply_hotel_stay_carbon(hotel_id, nights, guests) ==
    /\ last' = [op |-> "calculate_hotel_stay_carbon", status |-> 0,
                hotel_id |-> hotel_id, nights |-> nights, guests |-> guests,
                result |-> calculate_hotel_stay_carbon(hotel_id, nights, guests, bills)]
    /\ UNCHANGED <<stores, now, inflight>>

CarbonNext ==
    \/ \E n \in Names, p \in RegisterPasswords : register("a@x", n, p)
    \/ \E c \in HotelTokens : upload_case(c, 401, UploadOk)
    \/ \E d \in Airports, a \in Airports, p \in Passengers : apply_flight_carbon(d, a, p)
    \/ \E v \in Vehicles, d \in DistancesTenths, p \in Passengers :
          apply_transport_carbon(v, d, p)
    \/ \E h \in HotelIds, k \in 1..MaxNights, g \in Passengers :
          apply_hotel_stay_carbon(h, k, g)

SpecCarbon == Init /\ [][CarbonNext]_vars

(***************************************************************************)
(* Properties                                                              *)
(***************************************************************************)
Rows(seq) == {seq[i] : i \in 1..Len(seq)}

HotelOps == {"upload_bill", "get_my_bills", "calculate_carbon_footprint"}
AgentOps == {"create_trip", "get_my_trips", "get_trip_carbon_details"}

\* C1: every stored bill has a type in {electricity, water}, a month in
\* 1..12, a year in 2020..current_year+1, an amount that parses to a
\* non-negative number and a unit allowed for its type (case-insensitive).
ParsesNonNegative(amount) == Float(amount).tag = "num" /\ Float(amount).tenths >= 0

C1_StoredBillsValid ==
    \A b \in Rows(bills) :
        /\ b.bill_type \in {"electricity", "water"}
        /\ b.bill_month \in 1..12
        /\ b.bill_year \in MinBillYear..(CurrentYear(now) + 1)
        /\ ParsesNonNegative(b.bill_amount)
        /\ Lower(b.unit) \in {Lower(u) : u \in valid_units(b.bill_type)}

\* C2: the scoped reads use exactly the rows owned by the caller named in the
\* token (my-bills, carbon-footprint, my-trips), and an uploaded bill is
\* stamped with the token's hotel id.
C2_ScopedReads ==
    /\ (last.op \in {"get_my_bills", "calculate_carbon_footprint"} /\ last.status = 200)
          => Rows(last.bills) = {b \in Rows(bills) : b.hotel_id = last.cred.payload.hotel_id}
    /\ (last.op = "get_my_trips" /\ last.status = 200)
          => {last.trips[i].trip_id : i \in 1..Len(last.trips)}
               = {t.id : t \in {r \in Rows(trips) :
                                   r.travel_agent_id = last.cred.payload.agent_id}}
    /\ (last.op = "upload_bill" /\ last.status = 200)
          => /\ bills[last.id].hotel_id = last.cred.payload.hotel_id
             /\ \A b \in Rows(bills) : \E h \in Rows(hotels) : h.id = b.hotel_id

\* a hotel reads its bills while the ledger holds a bill of another hotel
C2_Witness ==
    /\ last.op = "get_my_bills"
    /\ last.status = 200
    /\ \E b \in Rows(bills) : b.hotel_id # last.cred.payload.hotel_id

\* C3: for an agent, the reply of trip detail for a trip owned by another
\* agent equals the reply for a trip id that does not exist, and is 404.
C3_NotFoundNotForbidden ==
    \A a \in Rows(agents) : \A t1 \in TripIds, t2 \in TripIds :
        ( /\ \E r \in Rows(trips) : r.id = t1 /\ r.travel_agent_id # a.id
          /\ ~ \E r \in Rows(trips) : r.id = t2 )
        => /\ trip_detail_reply(a, t1) = trip_detail_reply(a, t2)
           /\ trip_detail_reply(a, t1).status = 404

\* an agent has asked for the trip of another agent
C3_Witness ==
    /\ last.op = "get_trip_carbon_details"
    /\ last.status = 404
    /\ \E r \in Rows(trips) : r.id = last.trip_id /\ r.travel_agent_id # last.cred.payload.agent_id

\* C4: after every create_trip that stored a trip row, all the requested
\* flight, transport and hotel-stay rows of that trip are stored too.
C4_TripAtomic ==
    (last.op = "create_trip" /\ "committed_trip_id" \in DOMAIN last)
    => /\ Len(flights_of_trip(last.committed_trip_id)) = Len(last.trip.flight_segments)
       /\ Len(transports_of_trip(last.committed_trip_id)) = Len(last.trip.local_transports)
       /\ Len(stays_of_trip(last.committed_trip_id)) = Len(last.trip.hotel_stays)

\* C5: after a successful create_trip the stored derived carbon fields equal
\* the values computed at creation.
C5_DerivedFieldsStored ==
    (last.op = "create_trip" /\ last.status = 200)
    => /\ \E t \in Rows(trips) : t.id = last.trip_id /\ t.total_carbon_kg = last.total_carbon
       /\ \A i \in 1..Len(last.flight_details) :
             flights_of_trip(last.trip_id)[i].carbon_kg_per_passenger * last.number_of_tourists
                = last.flight_details[i]
       /\ \A i \in 1..Len(last.transport_details) :
             transports_of_trip(last.trip_id)[i].carbon_kg_total = last.transport_details[i]
       /\ \A i \in 1..Len(last.hotel_details) :
             stays_of_trip(last.trip_id)[i].carbon_kg_total = last.hotel_details[i]

\* C6 as stated: a create_trip for zero tourists by an authenticated agent
\* is answered with carbon_per_tourist_kg 0 and no error.
C6_ZeroTouristsYieldZero ==
    ( /\ last.op = "create_trip"
      /\ get_current_travel_agent(last.cred, last.at, agents, 401).ok
      /\ last.trip.number_of_tourists = 0 )
    => (last.status = 200 /\ last.carbon_per_tourist_kg = 0)

\* C6 as amended: every reported carbon_per_tourist_kg is the total carbon
\* divided by the tourist count, rounded to 3 decimals, and no stored trip
\* has a tourist count of 0.
PerTouristOk(r) ==
    /\ r.number_of_tourists > 0
    /\ r.carbon_per_tourist_kg
         = RoundDiv(r.total_carbon, r.number_of_tourists * (CarbonScale \div 1000))

C6_PerTourist ==
    /\ \A t \in Rows(trips) : t.number_of_tourists > 0
    /\ (last.op \in {"create_trip", "get_trip_carbon_details"} /\ last.status = 200)
          => PerTouristOk(last)
    /\ (last.op = "get_my_trips" /\ last.status = 200)
          => \A i \in 1..Len(last.trips) : PerTouristOk(last.trips[i])

\* my-trips has reported a trip of three tourists with a nonzero total
C6_Witness ==
    /\ last.op = "get_my_trips"
    /\ last.status = 200
    /\ \E i \in 1..Len(last.trips) :
          last.trips[i].number_of_tourists = 3 /\ last.trips[i].total_carbon > 0

\* C7: a protected operation called with a missing, malformed, wrongly
\* signed, expired or claim-incomplete token answers 401 and changes nothing.
BadCredFor(op, cred, t) ==
    \/ cred.form # "jwt"
    \/ cred.sig # "ok"
    \/ cred.payload.exp <= t
    \/ op \in HotelOps /\ ~({"hotel_id", "hotel_name"} \subseteq DOMAIN cred.payload)
    \/ op \in AgentOps /\ ~("agent_id" \in DOMAIN cred.payload)

C7_BadTokenIs401 ==
    [][ ( /\ last' # last
          /\ last'.op \in HotelOps \cup AgentOps
          /\ BadCredFor(last'.op, last'.cred, last'.at) )
        => (last'.status = 401 /\ UNCHANGED stores) ]_vars

\* C8 as stated: a login with an unknown email or a wrong password answers
\* 401, issues no token and changes no state.
LoginTable(op) == IF op = "login" THEN hotels ELSE agents

BadLogin(r) ==
    /\ r.op \in {"login", "login_travel_agent"}
    /\ \A a \in Rows(LoginTable(r.op)) :
          a.email = r.email => a.password # BcryptHash(r.password)

C8_BadLoginIs401 ==
    [][ (last' # last /\ BadLogin(last'))
        => ( /\ last'.status = 401
             /\ "access_token" \notin DOMAIN last'
             /\ UNCHANGED stores ) ]_vars

\* C8 as amended: such a login answers 400 "Invalid email or password",
\* issues no token and changes no state.
C8_BadLoginIs400 ==
    [][ (last' # last /\ BadLogin(last'))
        => ( /\ last'.status = 400
             /\ last'.detail = "Invalid email or password"
             /\ "access_token" \notin DOMAIN last'
             /\ UNCHANGED stores ) ]_vars

\* a login with a registered email and a wrong password was refused
C8_Witness ==
    /\ BadLogin(last)
    /\ last.status = 400
    /\ \E a \in Rows(LoginTable(last.op)) : a.email = last.email

\* C9: per login operation, the reply to an unregistered email equals the
\* reply to a registered email with a wrong password.
Observable(r) ==
    [status |-> r.status, detail |-> r.detail,
     fields |-> (DOMAIN r) \ {"op", "email", "password", "at"}]

C9_NoEnumeration ==
    \A op \in {"login", "login_travel_agent"} :
        \A e1 \in Emails, e2 \in Emails, p1 \in Passwords, p2 \in Passwords :
            LET tbl == LoginTable(op)
                idkey == IF op = "login" THEN "hotel_id" ELSE "agent_id"
                namekey == IF op = "login" THEN "hotel_name" ELSE "agent_name"
            IN ( /\ ~ \E a \in Rows(tbl) : a.email = e1
                 /\ \E a \in Rows(tbl) : a.email = e2 /\ a.password # BcryptHash(p2) )
               => Observable(LoginReply(op, tbl, e1, p1, idkey, namekey, now))
                    = Observable(LoginReply(op, tbl, e2, p2, idkey, namekey, now))

\* one email is registered and one is not, and a login was just refused
C9_Witness ==
    /\ last.op = "login"
    /\ last.status = 400
    /\ Len(hotels) = 1
    /\ \E e \in Emails : \A a \in Rows(hotels) : a.email # e

\* C10: register with an email already held answers 400 and leaves the
\* table unchanged; with an unused email it adds exactly one account, with
\* a fresh id, and leaves the existing accounts unchanged.
RegisterStep(op, tbl, tblp) ==
    (last' # last /\ last'.op = op)
    => IF \E a \in Rows(tbl) : a.email = last'.email
       THEN last'.status = 400 /\ last'.detail = "Email already registered" /\ tblp = tbl
       ELSE /\ last'.status = 200
            /\ Len(tblp) = Len(tbl) + 1
            /\ SubSeq(tblp, 1, Len(tbl)) = tbl
            /\ tblp[Len(tblp)].email = last'.email
            /\ \A a \in Rows(tbl) : a.id # tblp[Len(tblp)].id

C10_Register ==
    [][ /\ RegisterStep("register", hotels, hotels')
        /\ RegisterStep("register_travel_agent", agents, agents') ]_vars

\* a registration was refused for an email that is held
C10_Witness ==
    /\ last.op = "register"
    /\ last.status = 400
    /\ \E a \in Rows(hotels) : a.email = last.email

\* C11: under every interleaving of concurrent register requests, no two
\* accounts of the same kind hold the same email.
C11_UniqueEmails ==
    \A tbl \in {hotels, agents} :
        \A i \in 1..Len(tbl), j \in 1..Len(tbl) : tbl[i].email = tbl[j].email => i = j

\* two requests for one email both passed the existence check, one insert
\* went through and the other was refused by the index
C11_Witness ==
    /\ last.op = "register"
    /\ last.status = 500
    /\ \E a \in Rows(hotels) : a.email = last.email

\* C12: for every registered account, a login with its email and password
\* succeeds and the returned token, verified by the verifier of the same
\* kind, yields the id the account got at registration.
PasswordOf(row) == row.password[2]

C12_RoundTrip ==
    /\ \A h \in Rows(hotels) :
          LET r == LoginReply("login", hotels, h.email, PasswordOf(h),
                              "hotel_id", "hotel_name", now)
          IN /\ r.status = 200
             /\ get_current_hotel(r.access_token, now, 401).ok
             /\ get_current_hotel(r.access_token, now, 401).hotel_id = h.id
    /\ \A a \in Rows(agents) :
          LET r == LoginReply("login_travel_agent", agents, a.email, PasswordOf(a),
                              "agent_id", "agent_name", now)
          IN /\ r.status = 200
             /\ get_current_travel_agent(r.access_token, now, agents, 401).ok
             /\ get_current_travel_agent(r.access_token, now, agents, 401).agent.id = a.id
    /\ (last.op = "login" /\ last.status = 200)
          => \E h \in Rows(hotels) :
                /\ h.email = last.email
                /\ get_current_hotel(last.access_token, last.at, 401).ok
                /\ get_current_hotel(last.access_token, last.at, 401).hotel_id = h.id
    /\ (last.op = "login_travel_agent" /\ last.status = 200)
          => \E a \in Rows(agents) :
                /\ a.email = last.email
                /\ get_current_travel_agent(last.access_token, last.at, agents, 401).ok
                /\ get_current_travel_agent(last.access_token, last.at, agents, 401).agent.id = a.id

\* the agent registered second has logged in, after registrations of both kinds
C12_Witness ==
    /\ last.op = "login_travel_agent"
    /\ last.status = 200
    /\ last.id = 2
    /\ Len(hotels) >= 1

\* C13: a token issued at t carries exp = t + 24h, is accepted at every time
\* before t + 24h and rejected as expired at every time after it, whatever
\* logins and uses happened in between.
C13_TokenLifetime ==
    /\ (last.op \in {"login", "login_travel_agent"} /\ last.status = 200)
          => last.access_token.payload.exp = last.at + TokenExpireHours
    /\ \A t \in ClockTimes, u \in ClockTimes :
          /\ \A h \in Rows(hotels) :
                LET tok == create_access_token([hotel_id |-> h.id, hotel_name |-> h.name], t)
                    v == get_current_hotel(tok, u, 401)
                IN /\ u < t + TokenExpireHours => v.ok
                   /\ u > t + TokenExpireHours
                        => (~v.ok /\ v.status = 401 /\ v.detail = "Token has expired")
          /\ \A a \in Rows(agents) :
                LET tok == create_access_token([agent_id |-> a.id, agent_name |-> a.name], t)
                    v == get_current_travel_agent(tok, u, agents, 401)
                IN /\ u < t + TokenExpireHours => v.ok
                   /\ u > t + TokenExpireHours
                        => (~v.ok /\ v.status = 401 /\ v.detail = "Token has expired")
    /\ (last.op \in {"get_my_bills", "get_my_trips"} /\ last.cred \in HotelTokensAt(ClockTimes) \cup AgentTokensAt(ClockTimes))
          => /\ last.at < last.cred.payload.exp => last.status = 200
             /\ last.at > last.cred.payload.exp
                  => (last.status = 401 /\ last.detail = "Token has expired")

\* an agent token was used strictly after its expiry
C13_Witness ==
    /\ last.op = "get_my_trips"
    /\ last.status = 401
    /\ last.at > last.cred.payload.exp
    /\ last.cred \in AgentTokensAt(ClockTimes)

\* C14: a token issued by hotel login is never accepted by an
\* agent-protected operation and a token issued by agent login is never
\* accepted by a hotel-protected operation, also when the ids coincide.
C14_KindsApart ==
    /\ \A tok \in HotelTokens : ~get_current_travel_agent(tok, now, agents, 401).ok
    /\ \A tok \in AgentTokens : ~get_current_hotel(tok, now, 401).ok
    /\ (last.op \in AgentOps /\ last.cred \in HotelTokens) => last.status \in {401, 500}
    /\ (last.op \in HotelOps /\ last.cred \in AgentTokens) => last.status \in {401, 500}

\* a hotel token was presented to an agent operation while an agent has the
\* id that the token names as hotel_id
C14_Witness ==
    /\ last.op \in AgentOps
    /\ last.cred \in HotelTokens
    /\ \E a \in Rows(agents) : a.id = last.cred.payload.hotel_id

\* C15: upload checks bill_type, month, year, amount, unit in this order and
\* the error it returns is the one of the earliest violated rule.
TypeBad(r) == r.bill_type \notin {"electricity", "water"}
MonthBad(r) == r.bill_month < 1 \/ r.bill_month > 12
YearBad(r) == r.bill_year < MinBillYear \/ r.bill_year > CurrentYear(r.at) + 1
AmountBad(r) == ~ParsesNonNegative(r.bill_amount)
UnitBad(r) ==
    ~ \E u \in valid_units(r.bill_type) : Lower(u) = Lower(r.unit)

AmountErrors == {"Bill amount must be a valid number", "Bill amount must be a positive number"}

FirstFailure(r) ==
    IF TypeBad(r) THEN r.status = 400 /\ r.detail = "Invalid bill type"
    ELSE IF MonthBad(r) THEN r.status = 400 /\ r.detail = "Invalid month"
    ELSE IF YearBad(r) THEN r.status = 400 /\ r.detail = "Invalid year"
    ELSE IF AmountBad(r) THEN r.status = 400 /\ r.detail \in AmountErrors
    ELSE IF UnitBad(r) THEN r.status = 400 /\ r.detail = "Invalid unit"
    ELSE r.status # 400

Validated(r) == r.op = "upload_bill" /\ get_current_hotel(r.cred, r.at, 401).ok

SeveralBad(r) ==
    \E P \in {"type", "month", "year", "amount", "unit"} :
        \E Q \in {"type", "month", "year", "amount", "unit"} \ {P} :
            \A k \in {P, Q} :
                CASE k = "type" -> TypeBad(r)
                  [] k = "month" -> MonthBad(r)
                  [] k = "year" -> YearBad(r)
                  [] k = "amount" -> AmountBad(r)
                  [] k = "unit" -> UnitBad(r)

C15_FirstFailureWins == (Validated(last) /\ SeveralBad(last)) => FirstFailure(last)

\* the same for the requests whose amount is not a NaN
C15_FirstFailureWinsFinite ==
    (Validated(last) /\ Float(last.bill_amount).tag # "nan") => FirstFailure(last)

\* C16: an upload answered with 400 has written no object and has added or
\* changed no row.
C16_InvalidUploadNoMutation ==
    [][ (last' # last /\ last'.op = "upload_bill" /\ last'.status = 400)
        => UNCHANGED stores ]_vars

\* an upload was refused with 400 while the ledger holds a bill
C16_Witness ==
    /\ last.op = "upload_bill"
    /\ last.status = 400
    /\ Len(bills) >= 1

\* C17: when the storage call of a validated upload fails, the caller gets
\* 500 and the ledger is unchanged; a row enters the ledger only in an
\* upload whose storage call succeeded, and its file_url names an object
\* that was written.
C17_StoreThenInsert ==
    [][ /\ ( /\ last' # last
             /\ Validated(last')
             /\ validate_bill(last'.bill_type, last'.bill_month, last'.bill_year,
                              last'.bill_amount, last'.unit, CurrentYear(last'.at)) = "ok"
             /\ ~last'.s3ok )
           => (last'.status = 500 /\ bills' = bills /\ s3' = s3)
        /\ bills' # bills
           => /\ last'.op = "upload_bill" /\ last'.s3ok /\ last'.status = 200
              /\ \E f \in s3' : bills'[Len(bills')].file_url = FileUrl(f)
              /\ bills'[Len(bills')].file_url = last'.file_url ]_vars

\* a validated upload whose storage call failed was answered with 500
C17_Witness ==
    /\ Validated(last)
    /\ ~last.s3ok
    /\ last.status = 500

\* C18: a bill stays in the ledger with the same owner, type, period,
\* amount, unit and file reference, and an account stays in its table with
\* the same id, name and email, through every operation.
Identity(row) == [id |-> row.id, name |-> row.name, email |-> row.email]

C18_RowsStay ==
    [][ /\ \A i \in 1..Len(bills) : Len(bills') >= i /\ bills'[i] = bills[i]
        /\ \A i \in 1..Len(hotels) :
              Len(hotels') >= i /\ Identity(hotels'[i]) = Identity(hotels[i])
        /\ \A i \in 1..Len(agents) :
              Len(agents') >= i /\ Identity(agents'[i]) = Identity(agents[i]) ]_vars

\* a trip was created after a bill was uploaded and two hotels registered
C18_Witness ==
    /\ Len(bills) >= 1
    /\ Len(hotels) = 2
    /\ last.op = "create_trip"
    /\ last.status = 200

\* C19: for a hotel with at least one bill, hotel_stay_carbon returns the
\* average over the hotel's bills of amount * type factor / 30, times
\* nights, times guests / 2, with factors electricity 0.708 and water 0.298.
BillDailyTimesDays(b) ==
    Float(b.bill_amount).tenths *
        (IF b.bill_type = "electricity" THEN HotelStayElectricityFactor
         ELSE HotelStayWaterFactor)

C19_HotelStayFromBills ==
    \A h \in Rows(hotels) : \A nights \in {1, 3}, guests \in {2, 3} :
        LET mine == SelectSeq(bills, LAMBDA b : b.hotel_id = h.id)
            r == calculate_hotel_stay_carbon(h.id, nights, guests, bills)
        IN Len(mine) >= 1
           => /\ ~r.err
              /\ r.units * DaysInBill * Len(mine) * 2
                   = SumSeq([i \in 1..Len(mine) |-> BillDailyTimesDays(mine[i])])
                       * nights * guests

\* C20: create_trip, my-trips and trip detail never fail because of a
\* carbon computation, whatever the bill ledger holds.
C20_CarbonNeverFails ==
    ( /\ last.op \in AgentOps
      /\ get_current_travel_agent(last.cred, last.at, agents, 401).ok
      /\ last.op = "create_trip"
           => /\ last.trip.number_of_tourists > 0
              /\ \A i \in 1..Len(last.trip.hotel_stays) :
                    \E h \in Rows(hotels) : h.id = last.trip.hotel_stays[i].hotel_id )
    => last.status # 500

\* C21: for a hotel id with no bill on record, with or without an account,
\* hotel_stay_carbon returns 30 * nights * guests / 2.
C21_HotelStayDefault ==
    ( /\ last.op = "calculate_hotel_stay_carbon"
      /\ ~ \E b \in Rows(bills) : b.hotel_id = last.hotel_id )
    => /\ ~last.result.err
       /\ 2 * last.result.units = 30 * CarbonScale * last.nights * last.guests

\* 3 nights for 4 guests at a hotel id without account gave 180 kg, while
\* another hotel has a bill on record
C21_Witness ==
    /\ last.op = "calculate_hotel_stay_carbon"
    /\ last.nights = 3 /\ last.guests = 4
    /\ last.result.units = 180 * CarbonScale
    /\ ~ \E h \in Rows(hotels) : h.id = last.hotel_id
    /\ bills # <<>>

\* C22: flight_carbon is distance * 0.255 * passengers, the distance being
\* the route-table entry of the pair in either direction, else 500 km.
ClaimedDistance(d, a) ==
    IF airport_distances(d, a) # 0 THEN airport_distances(d, a)
    ELSE IF airport_distances(a, d) # 0 THEN airport_distances(a, d)
    ELSE 500

C22_FlightCarbon ==
    last.op = "calculate_flight_carbon"
    => last.result
         = ClaimedDistance(last.departure, last.arrival) * 255 * last.passengers
             * (CarbonScale \div 1000)

\* the unknown route XXX-YYY with 10 passengers gave 1275 kg
C22_Witness ==
    /\ last.op = "calculate_flight_carbon"
    /\ last.departure = "XXX" /\ last.arrival = "YYY" /\ last.passengers = 10
    /\ last.result = 1275 * CarbonScale

\* C23: flight_carbon(A, B, p) = flight_carbon(B, A, p) for all codes A, B
\* and passenger counts p.
C23_FlightSymmetric ==
    /\ \A d \in Airports, a \in Airports, p \in Passengers :
          calculate_flight_carbon(d, a, p) = calculate_flight_carbon(a, d, p)
    /\ last.op = "calculate_flight_carbon"
          => last.result
               = calculate_flight_carbon(last.arrival, last.departure, last.passengers)

\* a route was asked against the direction of its table entry
C23_Witness ==
    /\ last.op = "calculate_flight_carbon"
    /\ last.departure = "LHR" /\ last.arrival = "JFK"
    /\ last.result = 5550 * 255 * (CarbonScale \div 1000) * last.passengers

\* C24: transport_carbon is distance_km * factor * passengers with the
\* factors bus 0.089, car 0.171, train 0.041, taxi 0.171, metro 0.033,
\* matched case-insensitively, and 0.171 for every other vehicle type.
ClaimedFactor(v) ==
    CASE Lower(v) = "bus" -> 89
      [] Lower(v) = "car" -> 171
      [] Lower(v) = "train" -> 41
      [] Lower(v) = "taxi" -> 171
      [] Lower(v) = "metro" -> 33
      [] OTHER -> 171

C24_TransportCarbon ==
    last.op = "calculate_transport_carbon"
    => last.result = last.distance_km * ClaimedFactor(last.vehicle_type) * last.passengers

\* a bus written with a capital letter, 250.5 km, 15 passengers: 334.4175 kg
C24_Witness ==
    /\ last.op = "calculate_transport_carbon"
    /\ last.vehicle_type = "Bus" /\ last.distance_km = 2505 /\ last.passengers = 15
    /\ last.result = 3344175

\* C25: footprint returns total_co2_kg equal to the sum of amount * factor
\* over the hotel's bills, of the given year when a year is supplied and
\* of all years otherwise, with factors electricity 0.5 and water 0.001.
ClaimedFootprint(hotel_id, year) ==
    LET sel == SelectSeq(bills, LAMBDA b : /\ b.hotel_id = hotel_id
                                           /\ (year # NoYear => b.bill_year = year[1]))
    IN SumSeq([i \in 1..Len(sel) |->
                  Float(sel[i].bill_amount).tenths
                    * (IF sel[i].bill_type = "electricity" THEN 500 ELSE 1)])

C25_Footprint ==
    ( /\ last.op = "calculate_carbon_footprint"
      /\ get_current_hotel(last.cred, last.at, 401).ok )
    => /\ last.status = 200
       /\ last.total_co2_kg
            = Round3(ClaimedFootprint(last.cred.payload.hotel_id, last.year))

\* the same for a hotel whose bills all have finite amounts and for a year
\* that is absent or not 0
C25_FootprintFiniteNonzeroYear ==
    ( /\ last.op = "calculate_carbon_footprint"
      /\ get_current_hotel(last.cred, last.at, 401).ok
      /\ last.year # <<0>>
      /\ \A b \in Rows(bills) : b.hotel_id = last.cred.payload.hotel_id
                                    => Float(b.bill_amount).tag = "num" )
    => /\ last.status = 200
       /\ last.total_co2_kg
            = Round3(ClaimedFootprint(last.cred.payload.hotel_id, last.year))

\* C25, for a hotel whose bills all have finite amounts: footprint answers
\* 200 with total_co2_kg equal to the sum of amount * factor over the
\* hotel's bills, of the supplied year when one is supplied (0 included).
C25_FootprintFinite ==
    ( /\ last.op = "calculate_carbon_footprint"
      /\ get_current_hotel(last.cred, last.at, 401).ok
      /\ \A b \in Rows(bills) : b.hotel_id = last.cred.payload.hotel_id
                                    => Float(b.bill_amount).tag = "num" )
    => /\ last.status = 200
       /\ last.total_co2_kg
            = Round3(ClaimedFootprint(last.cred.payload.hotel_id, last.year))

\* The amount strings of the model, doubled.
Double(a) ==
    CASE a = "450" -> "900"
      [] a = "1250.5" -> "2501"
      [] a = "-5" -> "-10"
      [] OTHER -> a

DoubledBills(sel) == [i \in DOMAIN sel |-> [sel[i] EXCEPT !.bill_amount = Double(@)]]

\* total_co2_kg of the footprint reply for a set of selected bills, in grams
FootprintOf(sel) == Round3(footprint_total(sel).units)

\* C26: footprint is linear in the bill amounts: doubling every bill's
\* amount doubles total_co2_kg.
C26_DoublingDoubles ==
    (last.op = "calculate_carbon_footprint" /\ last.status = 200)
    => FootprintOf(DoubledBills(last.bills)) = 2 * last.total_co2_kg

\* C26, as the code has it: doubling every bill's amount doubles the sum of
\* amount * factor; total_co2_kg is that sum rounded to 3 decimals, so the
\* doubled bills' total_co2_kg is twice the reported one up to 0.001 kg.
C26_LinearUpToRounding ==
    (last.op = "calculate_carbon_footprint" /\ last.status = 200)
    => /\ footprint_total(DoubledBills(last.bills)).units
            = 2 * footprint_total(last.bills).units
       /\ FootprintOf(last.bills) = last.total_co2_kg
       /\ FootprintOf(DoubledBills(last.bills)) - 2 * last.total_co2_kg \in {-1, 0, 1}

C26_Witness ==
    /\ last.op = "calculate_carbon_footprint"
    /\ last.status = 200
    /\ last.total_co2_kg > 0
    /\ FootprintOf(DoubledBills(last.bills)) = 2 * last.total_co2_kg + 1

\* The three unrounded subtotals of a submitted trip, each component computed
\* with passengers/guests = number_of_tourists against the current bills.
FlightsSubtotal(trip) ==
    SumSeq([i \in 1..Len(trip.flight_segments) |->
              calculate_flight_carbon(trip.flight_segments[i].departure_airport,
                                      trip.flight_segments[i].arrival_airport,
                                      trip.number_of_tourists)])

TransportSubtotal(trip) ==
    SumSeq([i \in 1..Len(trip.local_transports) |->
              calculate_transport_carbon(trip.local_transports[i].vehicle_type,
                                         trip.local_transports[i].distance_km,
                                         trip.number_of_tourists)])

HotelsSubtotal(trip) ==
    SumSeq([i \in 1..Len(trip.hotel_stays) |->
              calculate_hotel_stay_carbon(trip.hotel_stays[i].hotel_id,
                                          trip.hotel_stays[i].number_of_nights,
                                          trip.number_of_tourists, bills).units])

\* C27: the summary returned by create_trip is consistent: each subtotal is
\* the sum of the component carbon over the submitted flights, transports
\* and stays (passengers/guests = tourist_count), reported rounded to 3
\* decimals, and total carbon is the sum of the three subtotals before
\* rounding.
C27_SummaryConsistent ==
    (last.op = "create_trip" /\ last.status = 200)
    => /\ last.flights_carbon_kg = Round3(FlightsSubtotal(last.trip))
       /\ last.transport_carbon_kg = Round3(TransportSubtotal(last.trip))
       /\ last.hotels_carbon_kg = Round3(HotelsSubtotal(last.trip))
       /\ last.total_carbon = FlightsSubtotal(last.trip) + TransportSubtotal(last.trip)
                                + HotelsSubtotal(last.trip)
       /\ last.total_carbon_kg = Round3(last.total_carbon)
       /\ last.flight_details = [i \in 1..Len(last.trip.flight_segments) |->
              calculate_flight_carbon(last.trip.flight_segments[i].departure_airport,
                                      last.trip.flight_segments[i].arrival_airport,
                                      last.trip.number_of_tourists)]

C27_Witness ==
    /\ last.op = "create_trip"
    /\ last.status = 200
    /\ last.trip.flight_segments # <<>>
    /\ last.trip.local_transports # <<>>
    /\ last.trip.hotel_stays # <<>>
    /\ last.hotels_carbon_kg > 0

\* The total create_trip returned for a stored trip that it answered with
\* 200: none of the hotels of its stays had a bill then, so every stay
\* counted with the default; flights and transports from the stored rows.
HasComponents(trip_id) ==
    flights_of_trip(trip_id) \o transports_of_trip(trip_id) \o stays_of_trip(trip_id) # <<>>

CreatedTotal(trip) ==
    LET fl == flights_of_trip(trip.id)
        tr == transports_of_trip(trip.id)
        st == stays_of_trip(trip.id)
    IN SumSeq([i \in 1..Len(fl) |->
                 calculate_flight_carbon(fl[i].departure_airport, fl[i].arrival_airport,
                                         trip.number_of_tourists)])
       + SumSeq([i \in 1..Len(tr) |->
                 calculate_transport_carbon(tr[i].vehicle_type, tr[i].distance_km,
                                            trip.number_of_tourists)])
       + SumSeq([i \in 1..Len(st) |->
                 calculate_hotel_stay_carbon(st[i].hotel_id, st[i].number_of_nights,
                                             trip.number_of_tourists, <<>>).units])

\* CreatedTotal is the total of the 200 reply of create_trip
C28_CreatedTotalIsReturned ==
    (last.op = "create_trip" /\ last.status = 200)
    => \E r \in Rows(trips) : /\ r.id = last.trip_id
                               /\ HasComponents(r.id)
                               /\ last.total_carbon_kg = Round3(CreatedTotal(r))

MyTripsWithTotals ==
    LET who == get_current_travel_agent(last.cred, last.at, agents, 401) IN
    {r \in Rows(trips) : r.travel_agent_id = who.agent.id /\ HasComponents(r.id)}

\* C28: the total carbon reported for a trip is stable over time: my-trips
\* and trip detail report, in every later state, the total_carbon_kg that
\* create_trip returned for the trip, whatever bills hotels upload in
\* between.
C28_TotalStable ==
    /\ ( /\ last.op = "get_my_trips"
         /\ get_current_travel_agent(last.cred, last.at, agents, 401).ok
         /\ MyTripsWithTotals # {} )
       => /\ last.status = 200
          /\ \A r \in MyTripsWithTotals : \E i \in 1..Len(last.trips) :
                 /\ last.trips[i].trip_id = r.id
                 /\ last.trips[i].total_carbon_kg = Round3(CreatedTotal(r))
    /\ ( /\ last.op = "get_trip_carbon_details"
         /\ get_current_travel_agent(last.cred, last.at, agents, 401).ok
         /\ \E r \in MyTripsWithTotals : r.id = last.trip_id )
       => /\ last.status = 200
          /\ \A r \in MyTripsWithTotals :
                 r.id = last.trip_id => last.total_carbon_kg = Round3(CreatedTotal(r))

\* every total that my-trips and trip detail do report for a trip is the
\* one create_trip returned
C28_ReportedTotalsStable ==
    /\ (last.op = "get_my_trips" /\ last.status = 200)
       => \A r \in MyTripsWithTotals : \E i \in 1..Len(last.trips) :
              /\ last.trips[i].trip_id = r.id
              /\ last.trips[i].total_carbon_kg = Round3(CreatedTotal(r))
    /\ (last.op = "get_trip_carbon_details" /\ last.status = 200)
       => \A r \in MyTripsWithTotals :
              r.id = last.trip_id => last.total_carbon_kg = Round3(CreatedTotal(r))

\* The bill ledger of the run in which no other hotel registers or uploads:
\* the hotel is the first account (id 1, also in its file names) and its
\* bills are numbered from 1.
OwnBills(hotel_id) == SelectSeq(bills, LAMBDA b : b.hotel_id = hotel_id)

AloneRow(b, i) ==
    [b EXCEPT !.id = i, !.hotel_id = 1,
              !.file_url = FileUrl(Filename(1, b.bill_type, b.bill_year, b.bill_month,
                                            b.file_url[2][5], b.file_url[2][6]))]

AloneLedger(hotel_id) ==
    [i \in 1..Len(OwnBills(hotel_id)) |-> AloneRow(OwnBills(hotel_id)[i], i)]

\* a bill row without the identifiers drawn from counters shared by all
\* hotels: its id, the hotel id, the hotel id in the file name
SansIds(b) ==
    [k \in DOMAIN b \ {"id", "hotel_id", "file_url"} |-> b[k]]
        @@ [file_tail |-> Tail(b.file_url[2])]

C29_WitnessFootprint ==
    /\ last.op = "calculate_carbon_footprint"
    /\ last.status = 200
    /\ last.total_co2_kg > 0
    /\ \E b \in Rows(bills) : b.hotel_id # last.cred.payload.hotel_id

\* C30: after any sequence of upload requests, including requests whose
\* insert fails after the storage call succeeded, every object written to
\* object storage is referenced by the file_url of a stored bill (no file is
\* left in storage without a bill row).
C30_NoOrphanObjects ==
    \A f \in s3 : \E b \in Rows(bills) : b.file_url = FileUrl(f)

====
